---- MODULE Spec2Model ----
(***************************************************************************)
(* A model of src/src/lib.rs of the tdigest crate: the Centroid value type *)
(* (construction, in-place update, mean-only order, full-field equality)   *)
(* and the TDigest container (new_with_size, default, new, accessors).     *)
(*                                                                         *)
(* f64 values are modelled as extended rationals num/den in lowest terms   *)
(* with den >= 0: den > 0 is a finite value, 1/0 is +infinity, -1/0 is     *)
(* -infinity and 0/0 is NaN.  Arithmetic is exact (no rounding) and the    *)
(* two signed zeros are one value.                                         *)
(***************************************************************************)
EXTENDS Integers, Sequences, FiniteSets

(***************************************************************************)
(* Bounds of the model.                                                    *)
(***************************************************************************)
MaxUpdates == 2
MaxLen == 3
MaxSize == 2
MaxDepth == 3
Slack == 2

(***************************************************************************)
(* f64                                                                     *)
(***************************************************************************)
Abs(n) == IF n < 0 THEN -n ELSE n

Sgn(n) == IF n < 0 THEN -1 ELSE IF n > 0 THEN 1 ELSE 0

RECURSIVE Gcd(_, _)
Gcd(x, y) == IF y = 0 THEN x ELSE Gcd(y, x % y)

Norm(n, d) ==
    IF d = 0 THEN [num |-> Sgn(n), den |-> 0]
    ELSE LET g == Gcd(Abs(n), d) IN [num |-> n \div g, den |-> d \div g]

F(n) == [num |-> n, den |-> 1]

Zero == F(0)

NaN == [num |-> 0, den |-> 0]

PInf == [num |-> 1, den |-> 0]

IsNaN(x) == x.num = 0 /\ x.den = 0

IsFinite(x) == x.den > 0

FAdd(x, y) ==
    IF x.den = 0 /\ y.den = 0
    THEN (IF x.num = y.num THEN x ELSE NaN)
    ELSE Norm(x.num * y.den + y.num * x.den, x.den * y.den)

FMul(x, y) == Norm(x.num * y.num, x.den * y.den)

FInv(y) ==
    IF y.num > 0 THEN [num |-> y.den, den |-> y.num]
    ELSE IF y.num < 0 THEN [num |-> -y.den, den |-> -y.num]
    ELSE IF y.den = 0 THEN NaN ELSE PInf

FDiv(x, y) == FMul(x, FInv(y))

FLt(x, y) ==
    /\ ~IsNaN(x)
    /\ ~IsNaN(y)
    /\ IF x.den = 0 /\ y.den = 0 THEN x.num < y.num
       ELSE x.num * y.den < y.num * x.den

FEq(x, y) == ~IsNaN(x) /\ ~IsNaN(y) /\ x = y

FGt(x, y) == FLt(y, x)

FLe(x, y) == FLt(x, y) \/ FEq(x, y)

\* f64::partial_cmp: <<>> is None, <<o>> is Some(o).
PartialCmp(x, y) ==
    IF FLt(x, y) THEN <<"Less">>
    ELSE IF FEq(x, y) THEN <<"Equal">>
    ELSE IF FGt(x, y) THEN <<"Greater">>
    ELSE <<>>

(***************************************************************************)
(* OrderedFloat<f64>: NaN equals NaN and is greater than every other value.*)
(***************************************************************************)
OFCmp(x, y) ==
    LET p == PartialCmp(x, y) IN
    IF p # <<>> THEN p[1]
    ELSE IF IsNaN(x) THEN (IF IsNaN(y) THEN "Equal" ELSE "Greater")
    ELSE "Less"

OFEq(x, y) == IF IsNaN(x) THEN IsNaN(y) ELSE FEq(x, y)

(***************************************************************************)
(* Centroid                                                                *)
(***************************************************************************)
CentroidNew(mean, weight) == [mean |-> mean, weight |-> weight]

CentroidDefault == CentroidNew(F(0), F(1))

Mean(c) == c.mean

Weight(c) == c.weight

\* Ord for Centroid: the means alone.
CentroidCmp_ByWeightToo(a, b) ==
    IF OFCmp(a.mean, b.mean) = "Equal" THEN OFCmp(a.weight, b.weight)
    ELSE OFCmp(a.mean, b.mean)

CentroidCmp(a, b) == OFCmp(a.mean, b.mean)

CentroidPartialCmp(a, b) == <<CentroidCmp(a, b)>>

\* derive(PartialEq): field by field.
CentroidEq_MeanOnly(a, b) == OFEq(a.mean, b.mean)

CentroidEq(a, b) == OFEq(a.mean, b.mean) /\ OFEq(a.weight, b.weight)

\* Centroid::update: the centroid after the call; the call returns
\* (mean(), weight()) of it.
CentroidUpdate_ScaledValue(c, value, weight) ==
    LET w == FAdd(weight, Weight(c)) IN
    [mean |-> FDiv(FAdd(FMul(Mean(c), Weight(c)), FMul(value, weight)), w),
     weight |-> w]

CentroidUpdate_UnscaledMean(c, value, weight) ==
    LET w == FAdd(weight, Weight(c)) IN
    [mean |-> FDiv(FAdd(Mean(c), value), w), weight |-> w]

CentroidUpdate(c, value, weight) ==
    LET w == FAdd(weight, Weight(c)) IN
    [mean |-> FDiv(FAdd(FMul(Mean(c), Weight(c)), value), w), weight |-> w]

UpdateReturn(c) == <<Mean(c), Weight(c)>>

(***************************************************************************)
(* TDigest                                                                 *)
(***************************************************************************)
DefaultSize == 100

\* The size of the empty digest the oversized branch of TDigest::new merges against.
CompressSize == 100

NewWithSizeDigest_ZeroMin(max_size) ==
    [centroids |-> <<>>, max_size |-> max_size, sum |-> Zero, count |-> Zero,
     max |-> NaN, min |-> Zero]

NewWithSizeDigest(max_size) ==
    [centroids |-> <<>>, max_size |-> max_size, sum |-> Zero, count |-> Zero,
     max |-> NaN, min |-> NaN]

DefaultDigest ==
    [centroids |-> <<>>, max_size |-> DefaultSize, sum |-> Zero, count |-> Zero,
     max |-> NaN, min |-> NaN]

\* The test of TDigest::new: centroids.len() <= max_size.
FitsAsGiven_Strict(centroids, max_size) == Len(centroids) < max_size

FitsAsGiven(centroids, max_size) == Len(centroids) <= max_size

\* The accept-as-given branch of TDigest::new.
AcceptDigest_CountFromSum(args) ==
    [centroids |-> args.centroids, max_size |-> args.max_size, sum |-> args.sum,
     count |-> args.sum, max |-> args.max, min |-> args.min]

AcceptDigest(args) ==
    [centroids |-> args.centroids, max_size |-> args.max_size, sum |-> args.sum,
     count |-> args.count, max |-> args.max, min |-> args.min]

\* The arguments of the nested TDigest::new call of the oversized branch.
NestedArgs_SameSize(args) == args

NestedArgs(args) ==
    LET sz == Len(args.centroids) IN
    [centroids |-> args.centroids, max_size |-> sz, sum |-> args.sum,
     count |-> args.count, max |-> args.max, min |-> args.min]

DigestMean_NonZero(d) ==
    IF d.count # Zero /\ ~IsNaN(d.count) THEN FDiv(d.sum, d.count) ELSE NaN

DigestMean(d) == IF FGt(d.count, Zero) THEN FDiv(d.sum, d.count) ELSE NaN

DigestSum(d) == d.sum

DigestCount(d) == d.count

DigestMax(d) == d.max

DigestMin(d) == d.min

IsEmpty(d) == d.centroids = <<>>

DigestMaxSize(d) == d.max_size

(***************************************************************************)
(* The merge engine (TDigest::merge_digests).  TDigest::new calls it; its  *)
(* body is described by the design document only: concatenate, sort by     *)
(* mean (stable), scan with one open cluster under a scale function, and   *)
(* recompute the statistics.  The size bound is the first digest's.        *)
(***************************************************************************)
RECURSIVE ConcatCentroids(_)
ConcatCentroids(digests) ==
    IF digests = <<>> THEN <<>>
    ELSE Head(digests).centroids \o ConcatCentroids(Tail(digests))

RECURSIVE InsertByMean(_, _)
InsertByMean(c, s) ==
    IF s = <<>> THEN <<c>>
    ELSE IF CentroidCmp(c, Head(s)) = "Less" THEN <<c>> \o s
    ELSE <<Head(s)>> \o InsertByMean(c, Tail(s))

RECURSIVE SortByMean(_)
SortByMean(s) ==
    IF s = <<>> THEN <<>>
    ELSE InsertByMean(s[Len(s)], SortByMean(SubSeq(s, 1, Len(s) - 1)))

RECURSIVE SumWeights(_)
SumWeights(s) ==
    IF s = <<>> THEN Zero ELSE FAdd(Weight(Head(s)), SumWeights(Tail(s)))

\* The scale function: flat near q = 0 and q = 1, steep near q = 1/2.
ScaleK(q, bound) ==
    LET half == [num |-> 1, den |-> 2]
        r == FAdd(F(1), FMul(F(-1), q)) IN
    IF FLe(q, half) THEN FMul(F(bound), FMul(F(2), FMul(q, q)))
    ELSE FMul(F(bound), FAdd(F(1), FMul(F(-2), FMul(r, r))))

RECURSIVE Compress(_, _, _, _, _)
Compress(rest, open, w0, total, bound) ==
    IF rest = <<>> THEN <<open>>
    ELSE LET c == Head(rest)
             q0 == FDiv(w0, total)
             q1 == FDiv(FAdd(FAdd(w0, Weight(open)), Weight(c)), total)
             span == FAdd(ScaleK(q1, bound), FMul(F(-1), ScaleK(q0, bound)))
         IN IF FLe(span, F(1))
            THEN Compress(Tail(rest),
                          CentroidUpdate(open, FMul(Mean(c), Weight(c)), Weight(c)),
                          w0, total, bound)
            ELSE <<open>> \o Compress(Tail(rest), c, FAdd(w0, Weight(open)),
                                      total, bound)

RECURSIVE SumCounts(_)
SumCounts(digests) ==
    IF digests = <<>> THEN Zero
    ELSE FAdd(Head(digests).count, SumCounts(Tail(digests)))

RECURSIVE SumSums(_)
SumSums(digests) ==
    IF digests = <<>> THEN Zero
    ELSE FAdd(Head(digests).sum, SumSums(Tail(digests)))

\* The smaller (sign = 1) or larger (sign = -1) of two extremes, NaN being
\* the absent one.
Extreme(x, y, sign) ==
    IF IsNaN(x) THEN y
    ELSE IF IsNaN(y) THEN x
    ELSE IF sign = 1 THEN (IF FLt(y, x) THEN y ELSE x)
    ELSE (IF FGt(y, x) THEN y ELSE x)

RECURSIVE MergeMin(_)
MergeMin(digests) ==
    IF digests = <<>> THEN NaN
    ELSE IF Head(digests).count = Zero THEN MergeMin(Tail(digests))
    ELSE Extreme(Head(digests).min, MergeMin(Tail(digests)), 1)

RECURSIVE MergeMax(_)
MergeMax(digests) ==
    IF digests = <<>> THEN NaN
    ELSE IF Head(digests).count = Zero THEN MergeMax(Tail(digests))
    ELSE Extreme(Head(digests).max, MergeMax(Tail(digests)), -1)

MergeDigests(digests) ==
    LET all == SortByMean(ConcatCentroids(digests))
        bound == Head(digests).max_size
    IN [centroids |-> IF all = <<>> THEN <<>>
                      ELSE Compress(Tail(all), Head(all), Zero,
                                    SumWeights(all), bound),
        max_size |-> bound,
        sum |-> SumSums(digests),
        count |-> SumCounts(digests),
        max |-> MergeMax(digests),
        min |-> MergeMin(digests)]

(***************************************************************************)
(* Inputs                                                                  *)
(***************************************************************************)
MeanInputs == {F(0), F(5), F(7)}

ListMeans == {F(5), F(7)}

WeightInputs == {F(-1), F(0), F(1), F(2)}

ValueInputs == {F(5), F(7)}

\* The centroids callers put in the lists they hand to TDigest::new.
ListCentroids == {CentroidNew(m, w) : m \in ListMeans, w \in {F(1), F(2)}}

CentroidLists == UNION {[1..n -> ListCentroids] : n \in 0..MaxLen}

SumInputs == {F(0), F(12)}

CountInputs == {F(-1), F(0), F(3), NaN}

\* The counts a caller who keeps count = the sum of the weights can pass.
WeightTotals == {SumWeights(cs) : cs \in CentroidLists}

MaxInputs == {NaN, F(7)}

MinInputs == {NaN, F(0)}

(***************************************************************************)
(* State                                                                   *)
(*   a, b     two centroids; a is the one update is called on              *)
(*   c0       a as it was constructed                                      *)
(*   log      the (value, weight) pairs a was updated with, in order       *)
(*   prev     a before the last update (<<>>: none yet)                    *)
(*   ret      what the last update returned (<<>>: none yet)               *)
(*   cmpd     the results of the last comparison of a and b                *)
(*   d        the digest the program holds (<<>>: none)                    *)
(*   stack    the TDigest::new calls in progress, innermost last           *)
(*   call     the constructor called last, with what it has done so far    *)
(*   meanRet  what the last TDigest::mean call returned                    *)
(***************************************************************************)
VARIABLES a, b, c0, log, prev, ret, cmpd, d, stack, call, meanRet

cvars == <<a, b, c0, log, prev, ret, cmpd>>

dvars == <<d, stack, call, meanRet>>

vars == <<a, b, c0, log, prev, ret, cmpd, d, stack, call, meanRet>>

NoCall(op, n) ==
    [op |-> op, size |-> n, args |-> <<>>, nested |-> 0, merges |-> 0,
     mergeArgs |-> <<>>]

CInit ==
    /\ a = CentroidDefault
    /\ b = CentroidDefault
    /\ c0 = CentroidDefault
    /\ log = <<>>
    /\ prev = <<>>
    /\ ret = <<>>
    /\ cmpd = <<>>

DInit ==
    /\ d = <<>>
    /\ stack = <<>>
    /\ call = NoCall("none", 0)
    /\ meanRet = <<>>

Init == CInit /\ DInit

(***************************************************************************)
(* Centroid operations                                                     *)
(***************************************************************************)
NewA ==
    \E m \in MeanInputs, w \in WeightInputs :
        /\ a' = CentroidNew(m, w)
        /\ c0' = a'
        /\ log' = <<>>
        /\ prev' = <<>>
        /\ ret' = <<>>
        /\ cmpd' = <<>>
        /\ UNCHANGED <<b, dvars>>

NewB ==
    \E m \in MeanInputs \cup {NaN}, w \in WeightInputs :
        /\ b' = CentroidNew(m, w)
        /\ cmpd' = <<>>
        /\ UNCHANGED <<a, c0, log, prev, ret, dvars>>

UpdateA ==
    /\ Len(log) < MaxUpdates
    /\ \E v \in ValueInputs, w \in WeightInputs :
        /\ a' = CentroidUpdate(a, v, w)
        /\ ret' = <<UpdateReturn(a')>>
        /\ prev' = <<a>>
        /\ log' = Append(log, [value |-> v, weight |-> w])
        /\ cmpd' = <<>>
        /\ UNCHANGED <<b, c0, dvars>>

Compare ==
    /\ cmpd = <<>>
    /\ cmpd' = <<[ab |-> CentroidCmp(a, b), ba |-> CentroidCmp(b, a),
                  pab |-> CentroidPartialCmp(a, b), eq |-> CentroidEq(a, b)]>>
    /\ UNCHANGED <<a, b, c0, log, prev, ret, dvars>>

CNext == NewA \/ NewB \/ UpdateA \/ Compare

SpecCentroid == Init /\ [][CNext]_vars

(***************************************************************************)
(* TDigest operations                                                      *)
(***************************************************************************)
Idle == stack = <<>>

\* The program holds no digest: it is about to construct one.
Fresh == Idle /\ d = <<>>

Top == stack[Len(stack)]

CallNewWithSize ==
    /\ Fresh
    /\ \E n \in (0..MaxSize) \cup {DefaultSize} :
        /\ d' = <<NewWithSizeDigest(n)>>
        /\ call' = NoCall("new_with_size", n)
        /\ meanRet' = <<>>
        /\ UNCHANGED <<stack, cvars>>

CallDefault ==
    /\ Fresh
    /\ d' = <<DefaultDigest>>
    /\ call' = NoCall("default", DefaultSize)
    /\ meanRet' = <<>>
    /\ UNCHANGED <<stack, cvars>>

\* A caller enters TDigest::new.
CallNew ==
    /\ Fresh
    /\ \E cs \in CentroidLists, n \in 0..MaxSize, s \in SumInputs,
          k \in CountInputs \cup WeightTotals, mx \in MaxInputs, mn \in MinInputs :
           LET args == [centroids |-> cs, max_size |-> n, sum |-> s, count |-> k,
                        max |-> mx, min |-> mn] IN
           /\ stack' = <<[args |-> args, vec |-> <<>>]>>
           /\ d' = <<>>
           /\ call' = [NoCall("new", n) EXCEPT !.args = <<args>>]
           /\ meanRet' = <<>>
           /\ UNCHANGED cvars

\* The call on top of the stack returns digest r to its caller: the program,
\* or the vec! of the TDigest::new call below it.
Return(r) ==
    IF Len(stack) = 1
    THEN d' = <<r>> /\ stack' = <<>>
    ELSE LET below == stack[Len(stack) - 1] IN
         /\ d' = d
         /\ stack' = [SubSeq(stack, 1, Len(stack) - 1) EXCEPT
                         ![Len(stack) - 1] =
                            [below EXCEPT !.vec = Append(below.vec, r)]]

CanAccept ==
    /\ ~Idle
    /\ Top.vec = <<>>
    /\ FitsAsGiven(Top.args.centroids, Top.args.max_size)

CanOversize ==
    /\ ~Idle
    /\ Top.vec = <<>>
    /\ ~FitsAsGiven(Top.args.centroids, Top.args.max_size)
    /\ Len(stack) < MaxDepth

CanMerge ==
    /\ ~Idle
    /\ Len(Top.vec) = 2

NewAccept ==
    /\ CanAccept
    /\ Return(AcceptDigest(Top.args))
    /\ UNCHANGED <<call, meanRet, cvars>>

\* The else branch up to the nested call: the vec! holds the empty digest and
\* the nested TDigest::new is entered.
NewOversize ==
    /\ CanOversize
    /\ stack' = Append([stack EXCEPT ![Len(stack)] =
                            [Top EXCEPT !.vec = <<NewWithSizeDigest(CompressSize)>>]],
                       [args |-> NestedArgs(Top.args), vec |-> <<>>])
    /\ call' = [call EXCEPT !.nested = @ + 1]
    /\ UNCHANGED <<d, meanRet, cvars>>

\* The nested call has returned: Self::merge_digests(digests).
NewMerge ==
    /\ CanMerge
    /\ Return(MergeDigests(Top.vec))
    /\ call' = [call EXCEPT !.merges = @ + 1, !.mergeArgs = Top.vec]
    /\ UNCHANGED <<meanRet, cvars>>

CallMean ==
    /\ Idle
    /\ d # <<>>
    /\ meanRet = <<>>
    /\ meanRet' = <<DigestMean(d[1])>>
    /\ UNCHANGED <<d, stack, call, cvars>>

\* The digest goes out of scope.
Drop ==
    /\ Idle
    /\ d # <<>>
    /\ d' = <<>>
    /\ call' = NoCall("none", 0)
    /\ meanRet' = <<>>
    /\ UNCHANGED <<stack, cvars>>

Next ==
    \/ CallNewWithSize
    \/ CallDefault
    \/ CallNew
    \/ NewAccept
    \/ NewOversize
    \/ NewMerge
    \/ CallMean
    \/ Drop

Spec == Init /\ [][Next]_vars

(***************************************************************************)
(* Properties of Centroid, checked under SpecCentroid.                     *)
(***************************************************************************)

\* C1: Centroid::update(value, weight) on (old_mean, old_weight) sets the
\* weight to old_weight + weight and the mean to
\* (old_mean * old_weight + value) / (old_weight + weight), the value not
\* multiplied by its weight; it changes the centroid in place and returns the
\* pair (mean(), weight()) of the changed centroid; (5, 1) updated with (7, 2)
\* gives mean 4 and weight 3.  Weights here are whole numbers, so the quotient
\* is stated by cross-multiplication; a zero new weight gives an infinity of
\* the numerator's sign or NaN, and a non-finite old mean stays non-finite.
C1_UpdateContract ==
    ret # <<>> =>
        LET old == prev[1]
            u == log[Len(log)]
            nw == old.weight.num + u.weight.num
            numer == old.mean.num * old.weight.num + u.value.num * old.mean.den
        IN /\ ret[1] = <<Mean(a), Weight(a)>>
           /\ Weight(a) = [num |-> nw, den |-> 1]
           /\ IF ~IsFinite(old.mean) THEN ~IsFinite(Mean(a))
              ELSE IF nw = 0 THEN Mean(a) = [num |-> Sgn(numer), den |-> 0]
              ELSE /\ IsFinite(Mean(a))
                   /\ Mean(a).num * nw * old.mean.den = numer * Mean(a).den
           /\ (old = CentroidNew(F(5), F(1)) /\ u = [value |-> F(7), weight |-> F(2)])
                 => a = CentroidNew(F(4), F(3))

C1_ScenarioA ==
    /\ ret = <<<<F(4), F(3)>>>>
    /\ prev = <<CentroidNew(F(5), F(1))>>
    /\ log[Len(log)] = [value |-> F(7), weight |-> F(2)]
    /\ a = CentroidNew(F(4), F(3))

\* The centroids the program holds or has held.
Live == {a, b, c0} \cup {prev[i] : i \in 1..Len(prev)}

LessOrEqual(o) == o \in {"Less", "Equal"}

\* C2: cmp (and partial_cmp) of two centroids is a total order decided by the
\* means alone, Equal whenever the means are equal whatever the weights;
\* == holds exactly when both the mean and the weight are equal.  So two
\* centroids of one mean and different weights compare Equal and are not ==.
C2_OrderByMeanEqualityByBoth ==
    /\ \A x, y \in Live :
          /\ (x.mean = y.mean) <=> (CentroidCmp(x, y) = "Equal")
          /\ (CentroidCmp(x, y) = "Less") <=> (CentroidCmp(y, x) = "Greater")
          /\ CentroidPartialCmp(x, y) = <<CentroidCmp(x, y)>>
          /\ CentroidEq(x, y) <=> (x.mean = y.mean /\ x.weight = y.weight)
          /\ \A z \in Live :
                (LessOrEqual(CentroidCmp(x, y)) /\ LessOrEqual(CentroidCmp(y, z)))
                    => LessOrEqual(CentroidCmp(x, z))
    /\ cmpd # <<>> =>
          /\ (a.mean = b.mean) => (cmpd[1].ab = "Equal" /\ cmpd[1].ba = "Equal")
          /\ (IsFinite(a.mean) /\ IsFinite(b.mean)) =>
                (cmpd[1].ab = "Less" <=> a.mean.num * b.mean.den < b.mean.num * a.mean.den)
          /\ (cmpd[1].ab = "Less") <=> (cmpd[1].ba = "Greater")
          /\ cmpd[1].pab = <<cmpd[1].ab>>
          /\ cmpd[1].eq <=> (a = b)

C2_SameMeanOtherWeight ==
    /\ cmpd # <<>>
    /\ a.mean = b.mean
    /\ a.weight # b.weight
    /\ cmpd[1].ab = "Equal"
    /\ ~cmpd[1].eq

\* C3: Centroid::new(mean, weight) with weight <= 0 fails with InvalidInput
\* and produces no centroid, so every centroid Centroid::new has returned
\* (c0 and b are such values) has weight > 0.
C3_NewRejectsNonPositiveWeight ==
    /\ FGt(Weight(c0), Zero)
    /\ FGt(Weight(b), Zero)

\* The weights after each update of us applied to a centroid of weight w.
RECURSIVE NonZeroWeights(_, _)
NonZeroWeights(w, us) ==
    \/ us = <<>>
    \/ /\ w + Head(us).weight.num # 0
       /\ NonZeroWeights(w + Head(us).weight.num, Tail(us))

RECURSIVE TotalWeight(_)
TotalWeight(us) == IF us = <<>> THEN 0 ELSE Head(us).weight.num + TotalWeight(Tail(us))

RECURSIVE TotalValue(_)
TotalValue(us) == IF us = <<>> THEN 0 ELSE Head(us).value.num + TotalValue(Tail(us))

RECURSIVE Replay(_, _)
Replay(c, us) ==
    IF us = <<>> THEN c
    ELSE Replay(CentroidUpdate(c, Head(us).value, Head(us).weight), Tail(us))

Orders(n) == {p \in [1..n -> 1..n] : \A i, j \in 1..n : p[i] = p[j] => i = j}

Args == call.args[1]

\* TDigest::new has returned to the program.
NewDone == call.op = "new" /\ Idle

Oversized == Len(Args.centroids) > Args.max_size

\* C4: TDigest::new with len(centroids) > max_size never fails and returns a
\* digest of at most max_size + c centroids, max_size being the caller's and
\* c a small constant (Slack) whatever the length of the list.
C4_OversizedWithinCallersBound ==
    (NewDone /\ Oversized) =>
        /\ d # <<>>
        /\ Len(d[1].centroids) <= Args.max_size + Slack

\* C5: TDigest::new_with_size(n) returns, for every n, a digest of no
\* centroids with sum() = 0, count() = 0, min(), max() and mean() NaN,
\* is_empty() true and max_size() = n.
C5_NewWithSizeIsEmpty ==
    call.op = "new_with_size" =>
        LET g == d[1] IN
        /\ g.centroids = <<>>
        /\ DigestSum(g) = Zero
        /\ DigestCount(g) = Zero
        /\ IsNaN(DigestMin(g))
        /\ IsNaN(DigestMax(g))
        /\ IsNaN(DigestMean(g))
        /\ meanRet # <<>> => IsNaN(meanRet[1])
        /\ IsEmpty(g)
        /\ DigestMaxSize(g) = call.size

C5_SizedEmptyDigestQueried ==
    /\ call.op = "new_with_size"
    /\ call.size = MaxSize
    /\ d # <<>>
    /\ DigestMaxSize(d[1]) = MaxSize
    /\ meanRet = <<NaN>>

\* C6: TDigest::new with len(centroids) <= max_size (equality included)
\* returns the list, max_size, sum, count, max and min exactly as supplied,
\* in the supplied order, whether or not the list is sorted and count is the
\* sum of the weights; it makes no nested call and no merge.
C6_AcceptedAsGiven ==
    (call.op = "new" /\ ~Oversized) =>
        /\ call.nested = 0
        /\ call.merges = 0
        /\ Len(stack) <= 1
        /\ Idle =>
              /\ d # <<>>
              /\ d[1].centroids = Args.centroids
              /\ d[1].max_size = Args.max_size
              /\ d[1].sum = Args.sum
              /\ d[1].count = Args.count
              /\ d[1].max = Args.max
              /\ d[1].min = Args.min

C6_FullUnsortedInconsistent ==
    /\ NewDone
    /\ Len(Args.centroids) = Args.max_size
    /\ Args.centroids = <<CentroidNew(F(7), F(1)), CentroidNew(F(5), F(2))>>
    /\ Args.count = F(-1)
    /\ d = <<Args>>

\* C7: every digest obtained from new_with_size, default or new has
\* count() equal to the sum of the weights of its centroids.
C7_CountIsWeightSum ==
    (Idle /\ d # <<>>) => DigestCount(d[1]) = SumWeights(d[1].centroids)

\* C7 as amended: every digest obtained from new_with_size or default, or
\* from new called with count equal to the sum of the weights of the supplied
\* centroids, has count() equal to the sum of the weights of its centroids.
C7_CountIsWeightSumWhenSupplied ==
    (Idle /\ d # <<>> /\ (call.op = "new" => Args.count = SumWeights(Args.centroids)))
        => /\ DigestCount(d[1]) = SumWeights(d[1].centroids)
           /\ call.op = "new" => DigestCount(d[1]) = Args.count

C7_ConsistentOversized ==
    /\ NewDone
    /\ call.merges = 1
    /\ Len(Args.centroids) = MaxLen
    /\ Args.count = SumWeights(Args.centroids)
    /\ d # <<>>
    /\ DigestCount(d[1]) = SumWeights(d[1].centroids)
    /\ FGt(DigestCount(d[1]), F(MaxLen))

\* C8: TDigest::mean() returns sum / count when count is not zero and NaN
\* exactly when count is zero.
C8_MeanDividesUnlessZero ==
    meanRet # <<>> =>
        LET g == d[1] IN
        /\ g.count # Zero => meanRet[1] = FDiv(g.sum, g.count)
        /\ IsNaN(meanRet[1]) <=> g.count = Zero

\* C8 as amended: TDigest::mean() returns sum / count when count > 0 and
\* NaN whenever count is not greater than zero: zero, negative or NaN.  It
\* never divides by a zero count.
C8_MeanDividesWhenPositive ==
    meanRet # <<>> =>
        LET g == d[1]
            m == meanRet[1]
        IN IF IsFinite(g.count) /\ g.count.num > 0
           THEN /\ IsFinite(m)
                /\ m.num * g.count.num * g.sum.den = g.sum.num * g.count.den * m.den
           ELSE IsNaN(m)

C8_NegativeCountQueried ==
    /\ meanRet = <<NaN>>
    /\ d # <<>>
    /\ d[1].count = F(-1)
    /\ d[1].sum = F(12)

\* C9: the oversized branch of TDigest::new ends for every input: it makes
\* one nested TDigest::new call, which is passed the length of the list as
\* max_size and so accepts the list as given, and then one merge of exactly
\* the empty digest of max_size 100 followed by a digest holding the
\* unchanged list with the caller's sum, count, max and min.
C9_OversizedNestsOnceMergesOnce ==
    /\ Len(stack) <= 2
    /\ call.nested <= 1
    /\ call.merges <= 1
    /\ ~Idle => (CanAccept \/ CanOversize \/ CanMerge)
    /\ Len(stack) = 2 =>
          /\ call.nested = 1
          /\ stack[1].vec =
                <<[centroids |-> <<>>, max_size |-> 100, sum |-> Zero,
                   count |-> Zero, max |-> NaN, min |-> NaN]>>
          /\ stack[2].args.centroids = Args.centroids
          /\ stack[2].args.max_size = Len(Args.centroids)
          /\ Len(stack[2].args.centroids) <= stack[2].args.max_size
    /\ (NewDone /\ Oversized) =>
          /\ call.nested = 1
          /\ call.merges = 1
          /\ call.mergeArgs =
                <<[centroids |-> <<>>, max_size |-> 100, sum |-> Zero,
                   count |-> Zero, max |-> NaN, min |-> NaN],
                  [centroids |-> Args.centroids,
                   max_size |-> Len(Args.centroids), sum |-> Args.sum,
                   count |-> Args.count, max |-> Args.max, min |-> Args.min]>>

C9_OversizedFinished ==
    /\ NewDone
    /\ Len(Args.centroids) = MaxLen
    /\ Args.max_size = 0
    /\ call.nested = 1
    /\ call.merges = 1
    /\ d # <<>>

====
